---- MODULE Spec2Model ----
(***************************************************************************)
(* A model of src/malloc.c: an sbrk-backed allocator keeping its blocks in *)
(* a singly-linked list.  Memory is an array of cells.  The machine is     *)
(* scaled: size_t, pointers and int are one cell wide, size_t and pointer  *)
(* arithmetic is modulo 2^Width, and struct mem_block is four cells.       *)
(***************************************************************************)
EXTENDS Integers, FiniteSets, Sequences, TLC

\* ---------------------------------------------------------------- bounds
\* Width of size_t, of a pointer and of intptr_t, in bits.
Width == 5
\* Cells the data region may grow by before the system denies growth.
HeapCells == 12
\* Largest ordinary request the caller makes.
MaxSize == 2

\* ------------------------------------------------------ program constants
NULL == 0
\* struct mem_block, one cell per field
OFF_SIZE == 0
OFF_NEXT == 1
OFF_FREE == 2
OFF_FLAG == 3
BLOCK_SIZE == 4
\* debug_flag values: 0x12345678, 0x77777777, 0x55555555
TAG_EXTENDED == 305419896
TAG_REUSED == 2004318071
TAG_FREED == 1431655765

Modulus == 2^Width
\* (void *) -1
SBRK_FAILED == Modulus - 1
\* The initial program break, and the highest break the system grants.
HeapStart == BLOCK_SIZE
MemTop == HeapStart + HeapCells
\* The cells the model gives a content: the data region and what a store
\* just past the highest break can reach.  Nothing else is backed by memory.
Cells == HeapStart..(MemTop + BLOCK_SIZE + MaxSize)

\* Requests whose size + BLOCK_SIZE leaves the positive range of the
\* increment sbrk takes: one that reads as -1, one that wraps to +1.
HugeShrink == Modulus - BLOCK_SIZE - 1
HugeWrap == Modulus - BLOCK_SIZE + 1
Sizes == (0..MaxSize) \cup {HugeShrink, HugeWrap}
\* zero_allocate arguments; (Modulus \div 2 + 1) * 2 exceeds size_t.
Elements == {0, 1, Modulus \div 2 + 1}
ElementSizes == {1, 2}

\* mem, brk, base: the memory cells, the program break, the list head.
\* status: how the process stands.  last: the most recent call.
\* held, returned, released: the user pointers the caller holds now, has
\* ever been handed, and has ever released with success.
VARIABLES mem, brk, base, status, held, returned, released, last
vars == <<mem, brk, base, status, held, returned, released, last>>

\* ------------------------------------------------------------- helpers
\* A size_t passed where intptr_t is expected.
ToSigned(x) == IF x >= Modulus \div 2 THEN x - Modulus ELSE x

\* An address inside the data region whose break is b.
InRegion(a, b) == HeapStart <= a /\ a < b

\* The severity of touching the cells lo..hi-1 when the break is b: inside
\* the region it is defined; outside it is undefined, and outside the cells
\* that are backed by memory it can only fault.
Access(lo, hi, b) ==
    IF hi <= lo THEN "none"
    ELSE IF ~((lo..(hi - 1)) \subseteq Cells) THEN "wild"
    ELSE IF InRegion(lo, b) /\ hi <= b THEN "none"
    ELSE "oob"

Worse(f, g) ==
    IF f = "wild" \/ g = "wild" THEN "wild"
    ELSE IF f = "oob" \/ g = "oob" THEN "oob"
    ELSE "none"

\* What a function leaves behind: the heap, its return value, what became of
\* its growth request, the severity of its accesses, whether an assert failed.
Result(m, b, bs, ret, req, fault, abort) ==
    [mem |-> m, brk |-> b, base |-> bs, ret |-> ret, sbrk |-> req,
     fault |-> fault, abort |-> abort]

Heap == [mem |-> mem, brk |-> brk, base |-> base]

\* ------------------------------------------------------------ the system
\* sbrk(increment) on a break b: the old break, or (void *) -1.  grant is
\* the system's answer when it is free to refuse.
sbrk(b, increment, grant) ==
    LET inc == ToSigned(increment)
        new == b + inc
    IN  IF inc = 0 THEN [ret |-> b, brk |-> b]
        ELSE IF ~grant \/ new > MemTop \/ new < HeapStart
             THEN [ret |-> SBRK_FAILED, brk |-> b]
             ELSE [ret |-> b, brk |-> new]

memset(m, dst, v, n) ==
    [a \in Cells |-> IF dst <= a /\ a < dst + n THEN v ELSE m[a]]

memcpy(m, dst, src, n) ==
    [a \in Cells |-> IF dst <= a /\ a < dst + n /\ src + (a - dst) \in Cells
                     THEN m[src + (a - dst)] ELSE m[a]]

\* ------------------------------------------------------------- malloc.c
\* A slip: the check written with < , which no size_t satisfies.
size_rejected_strict(size) == size < 0

\* line 88: if (size <= 0)
size_rejected(size) == size <= 0

\* A slip: a free block of exactly the requested size is passed over.
block_fits_larger(m, current, size) ==
    m[current + OFF_FREE] # 0 /\ m[current + OFF_SIZE] > size

\* line 49: current->free && current->size >= size
block_fits(m, current, size) ==
    m[current + OFF_FREE] # 0 /\ m[current + OFF_SIZE] >= size

\* A slip: the search runs to the end of the list and keeps the last block
\* that fits.
RECURSIVE scan_last_fit(_, _, _, _)
scan_last_fit(m, current, lastp, size) ==
    IF current = NULL THEN [block |-> NULL, last |-> lastp]
    ELSE LET rest == scan_last_fit(m, m[current + OFF_NEXT], current, size)
         IN  IF rest.block = NULL /\ block_fits(m, current, size)
             THEN [block |-> current, last |-> lastp]
             ELSE rest

\* lines 47-53
RECURSIVE scan(_, _, _, _)
scan(m, current, lastp, size) ==
    IF current # NULL /\ ~block_fits(m, current, size)
    THEN scan(m, m[current + OFF_NEXT], current, size)
    ELSE [block |-> current, last |-> lastp]

\* A slip: the caller's last is not advanced by the scan.
locate_free_block_stale(h, lastp, size) ==
    [block |-> scan(h.mem, h.base, lastp, size).block, last |-> lastp]

locate_free_block(h, lastp, size) == scan(h.mem, h.base, lastp, size)

\* line 60: the argument of sbrk, computed in size_t
growth_request(size) == (size + BLOCK_SIZE) % Modulus

\* A slip: the result of sbrk compared with NULL, which sbrk never returns.
sbrk_failed_null(new_break) == new_break = NULL

\* line 63: new_break == (void *) -1
sbrk_failed(new_break) == new_break = SBRK_FAILED

\* lines 71-73
link_block(m, lastp, block) ==
    IF lastp # NULL THEN [m EXCEPT ![lastp + OFF_NEXT] = block] ELSE m

\* A slip: the new block's debug_flag is left as the memory held it.
init_block_untagged(m, block, size) ==
    [m EXCEPT ![block + OFF_SIZE] = size,
              ![block + OFF_NEXT] = NULL,
              ![block + OFF_FREE] = 0]

\* lines 76-79
init_block(m, block, size) ==
    [m EXCEPT ![block + OFF_SIZE] = size,
              ![block + OFF_NEXT] = NULL,
              ![block + OFF_FREE] = 0,
              ![block + OFF_FLAG] = TAG_EXTENDED]

\* A slip: the contiguity assert compiled out.
contiguous_unchecked(block, new_break) == TRUE

\* line 68: (void *)block == new_break
contiguous(block, new_break) == block = new_break

\* other: how far another grower moved the break between the two sbrk calls.
extend_memory(h, lastp, size, grant, other) ==
    LET block == h.brk
        r == sbrk(h.brk + other, growth_request(size), grant)
        f1 == IF lastp # NULL
              THEN Access(lastp + OFF_NEXT, lastp + OFF_NEXT + 1, r.brk)
              ELSE "none"
        f2 == Access(block, block + BLOCK_SIZE, r.brk)
        \* the system's answer, whatever the code makes of it
        req == IF r.ret = SBRK_FAILED THEN "denied" ELSE "granted"
    IN  IF sbrk_failed(r.ret)
        THEN Result(h.mem, r.brk, h.base, NULL, req, "none", FALSE)
        ELSE IF ~contiguous(block, r.ret)
        THEN Result(h.mem, r.brk, h.base, NULL, req, "none", TRUE)
        ELSE Result(init_block(link_block(h.mem, lastp, block), block, size),
                    r.brk, h.base, block, req, Worse(f1, f2), FALSE)

\* A slip: the reused block keeps the tag its release gave it.
mark_used_untagged(m, block) == [m EXCEPT ![block + OFF_FREE] = 0]

\* lines 111-112
mark_used(m, block) ==
    [m EXCEPT ![block + OFF_FREE] = 0, ![block + OFF_FLAG] = TAG_REUSED]

\* line 116: block + 1
user_ptr(block) == block + BLOCK_SIZE

\* lines 92-116: the allocation of a size that passed the check
allocate_block(h, size, grant, other) ==
    IF h.base = NULL
    THEN LET e == extend_memory(h, NULL, size, grant, other)
         IN  IF e.ret = NULL THEN e
             ELSE [e EXCEPT !.base = e.ret, !.ret = user_ptr(e.ret)]
    ELSE LET f == locate_free_block(h, h.base, size)
         IN  IF f.block = NULL
             THEN LET e == extend_memory(h, f.last, size, grant, other)
                  IN  IF e.ret = NULL THEN e
                      ELSE [e EXCEPT !.ret = user_ptr(e.ret)]
             ELSE Result(mark_used(h.mem, f.block), h.brk, h.base,
                         user_ptr(f.block), "none", "none", FALSE)

allocate_memory(h, size, grant, other) ==
    IF size_rejected(size)
    THEN Result(h.mem, h.brk, h.base, NULL, "none", "none", FALSE)
    ELSE allocate_block(h, size, grant, other)

\* A slip that is a repair: a product that does not fit size_t is turned
\* into a request of 0, which allocate_memory refuses.
total_size_checked(elements, element_size) ==
    IF elements * element_size >= Modulus THEN 0 ELSE elements * element_size

\* line 121: elements * element_size, computed in size_t
total_size(elements, element_size) == (elements * element_size) % Modulus

\* lines 123-125: the zero-fill of a region of n bytes at a.ret
zero_fill(a, n) ==
    IF a.ret # NULL
    THEN [a EXCEPT !.mem = memset(a.mem, a.ret, 0, n),
                   !.fault = Worse(a.fault, Access(a.ret, a.ret + n, a.brk))]
    ELSE a

zero_allocate(h, elements, element_size, grant, other) ==
    zero_fill(allocate_memory(h, total_size(elements, element_size), grant, other),
              total_size(elements, element_size))

retrieve_block_ptr(ptr) == ptr - BLOCK_SIZE

\* A slip: the asserts compiled out.
release_asserts_off(m, block_ptr) == TRUE

\* A slip: the tag check admits the freshly-extended sentinel only.
release_asserts_fresh(m, block_ptr) ==
    /\ m[block_ptr + OFF_FREE] = 0
    /\ m[block_ptr + OFF_FLAG] = TAG_EXTENDED

\* lines 141-142: the two asserts
release_asserts(m, block_ptr) ==
    /\ m[block_ptr + OFF_FREE] = 0
    /\ m[block_ptr + OFF_FLAG] \in {TAG_REUSED, TAG_EXTENDED}

\* A slip: the released block is also cut off from its successor.
mark_free_unlink(m, block_ptr) ==
    [m EXCEPT ![block_ptr + OFF_FREE] = 1,
              ![block_ptr + OFF_FLAG] = TAG_FREED,
              ![block_ptr + OFF_NEXT] = NULL]

\* A slip: a released block takes in a free successor (coalescing).
mark_free_coalesce(m, block_ptr) ==
    LET nxt == m[block_ptr + OFF_NEXT]
    IN  [m EXCEPT ![block_ptr + OFF_FREE] = 1,
                  ![block_ptr + OFF_FLAG] = TAG_FREED,
                  ![block_ptr + OFF_SIZE] =
                      IF nxt # NULL /\ m[nxt + OFF_FREE] = 1
                      THEN @ + BLOCK_SIZE + m[nxt + OFF_SIZE] ELSE @]

\* lines 143-144
mark_free(m, block_ptr) ==
    [m EXCEPT ![block_ptr + OFF_FREE] = 1, ![block_ptr + OFF_FLAG] = TAG_FREED]

release_memory(h, ptr) ==
    IF ptr = NULL
    THEN Result(h.mem, h.brk, h.base, NULL, "none", "none", FALSE)
    ELSE IF ~release_asserts(h.mem, retrieve_block_ptr(ptr))
    THEN Result(h.mem, h.brk, h.base, NULL, "none", "none", TRUE)
    ELSE Result(mark_free(h.mem, retrieve_block_ptr(ptr)), h.brk, h.base,
                NULL, "none", "none", FALSE)

\* A slip: a block of exactly the new size is taken to be too small.
is_sufficient_larger(m, block_ptr, size) == m[block_ptr + OFF_SIZE] > size

\* line 156: block_ptr->size >= size
is_sufficient(m, block_ptr, size) == m[block_ptr + OFF_SIZE] >= size

\* A slip: the copy stops one byte short.
copy_old_short(a, ptr) ==
    LET n == a.mem[retrieve_block_ptr(ptr) + OFF_SIZE] - 1
    IN  [a EXCEPT !.mem = memcpy(a.mem, a.ret, ptr, n),
                  !.fault = Worse(a.fault, Access(a.ret, a.ret + n, a.brk))]

\* line 166: memcpy(new_ptr, ptr, block_ptr->size) into the region at a.ret
copy_old(a, ptr) ==
    LET n == a.mem[retrieve_block_ptr(ptr) + OFF_SIZE]
    IN  [a EXCEPT !.mem = memcpy(a.mem, a.ret, ptr, n),
                  !.fault = Worse(a.fault, Access(a.ret, a.ret + n, a.brk))]

\* lines 160-168: a is what allocate_memory(size) left behind
move_block(a, ptr) ==
    IF a.ret = NULL THEN a
    ELSE LET c == copy_old(a, ptr)
             d == release_memory(c, ptr)
         IN  Result(d.mem, d.brk, d.base, IF d.abort THEN NULL ELSE a.ret,
                    a.sbrk, c.fault, d.abort)

\* lines 153-168: the reallocation of a pointer that is not NULL
reallocate_block(h, ptr, size, grant, other) ==
    IF is_sufficient(h.mem, retrieve_block_ptr(ptr), size)
    THEN Result(h.mem, h.brk, h.base, ptr, "none", "none", FALSE)
    ELSE move_block(allocate_memory(h, size, grant, other), ptr)

\* A slip: an absent pointer is answered with absent instead of allocating.
reallocate_memory_absent(h, ptr, size, grant, other) ==
    IF ptr = NULL
    THEN Result(h.mem, h.brk, h.base, NULL, "none", "none", FALSE)
    ELSE reallocate_block(h, ptr, size, grant, other)

reallocate_memory(h, ptr, size, grant, other) ==
    IF ptr = NULL
    THEN allocate_memory(h, size, grant, other)
    ELSE reallocate_block(h, ptr, size, grant, other)

\* --------------------------------------------------------------- caller
\* The record of a call: what was asked, what came back, what became of its
\* growth request, and the pointer the call before it released (after).
Call(op, ptr, size, elements, element_size, after) ==
    [op |-> op, ptr |-> ptr, size |-> size, elements |-> elements,
     element_size |-> element_size, after |-> after, ret |-> NULL,
     sbrk |-> "none", other |-> 0]

\* The ways a call can end: it returns; an assert aborts the process; or it
\* touched memory outside the data region, which either faults or lets the
\* stores land, after which the program's behaviour is no longer defined.
Outcomes(r) ==
    IF r.abort THEN {"abort"}
    ELSE IF r.fault = "wild" THEN {"segv"}
    ELSE IF r.fault = "oob" THEN {"segv", "undef"}
    ELSE {"run"}

\* What the record of a call keeps of another grower: how far it moved the
\* break inside the extension the call made, if it made one.
Raced(r, call, other) ==
    [call EXCEPT !.other = IF r.sbrk = "none" THEN 0 ELSE other]

\* The call leaves r behind and ends as how; owned and freed are the
\* pointers the caller holds and has released once the call has returned.
Commit(r, call, how, owned, freed) ==
    /\ status' = how
    /\ IF how = "segv"
       THEN /\ UNCHANGED <<mem, brk, base, held, returned, released>>
            /\ last' = [call EXCEPT !.sbrk = r.sbrk]
       ELSE /\ mem' = r.mem
            /\ brk' = r.brk
            /\ base' = r.base
            /\ held' = IF how = "abort" THEN held ELSE owned
            /\ released' = IF how = "abort" THEN released ELSE freed
            /\ returned' = IF r.ret = NULL THEN returned
                           ELSE returned \cup {r.ret}
            /\ last' = [call EXCEPT !.ret = r.ret, !.sbrk = r.sbrk]

\* The pointer the immediately preceding call released, if it released one.
JustReleased == IF last.op = "release" THEN last.ptr ELSE NULL

Init ==
    /\ mem = [a \in Cells |-> 0]
    /\ brk = HeapStart
    /\ base = NULL
    /\ status = "run"
    /\ held = {}
    /\ returned = {}
    /\ released = {}
    /\ last = Call("init", NULL, 0, 0, 0, NULL)

Allocate(size, grant, other) ==
    /\ status = "run"
    /\ \E r \in {allocate_memory(Heap, size, grant, other)} :
       \E how \in Outcomes(r) :
           Commit(r, Raced(r, Call("allocate", NULL, size, 0, 0, JustReleased), other), how,
                  IF r.ret = NULL THEN held ELSE held \cup {r.ret}, released)

ZeroAllocate(elements, element_size, grant, other) ==
    /\ status = "run"
    /\ \E r \in {zero_allocate(Heap, elements, element_size, grant, other)} :
       \E how \in Outcomes(r) :
           Commit(r, Raced(r, Call("zero_allocate", NULL, total_size(elements, element_size),
                                   elements, element_size, NULL), other), how,
                  IF r.ret = NULL THEN held ELSE held \cup {r.ret}, released)

Release(ptr) ==
    /\ status = "run"
    /\ \E r \in {release_memory(Heap, ptr)} :
       \E how \in Outcomes(r) :
           Commit(r, Call("release", ptr, 0, 0, 0, NULL), how,
                  held \ {ptr}, released \cup ({ptr} \ {NULL}))

Reallocate(ptr, size, grant, other) ==
    /\ status = "run"
    /\ \E r \in {reallocate_memory(Heap, ptr, size, grant, other)} :
       \E how \in Outcomes(r) :
           Commit(r, Raced(r, Call("reallocate", ptr, size, 0, 0, NULL), other), how,
                  IF r.ret = NULL \/ r.ret = ptr THEN held
                  ELSE (held \ {ptr}) \cup {r.ret},
                  IF r.ret = NULL \/ r.ret = ptr THEN released
                  ELSE released \cup ({ptr} \ {NULL}))

\* The caller writes the payload of a block it holds; the byte it stores at
\* offset i is i + 1, so that no two offsets hold the same data.
UserWrite(p) ==
    /\ status = "run"
    /\ p \in held
    /\ LET n == mem[retrieve_block_ptr(p) + OFF_SIZE]
       IN  mem' = [a \in Cells |-> IF p <= a /\ a < p + n THEN a - p + 1 ELSE mem[a]]
    /\ last' = Call("write", p, 0, 0, 0, NULL)
    /\ UNCHANGED <<brk, base, status, held, returned, released>>

Ends == {"run", "abort", "segv", "undef"}

\* One thread: no other grower moves the break (other = 0).
Next ==
    \/ \E size \in Sizes, grant \in BOOLEAN : Allocate(size, grant, 0)
    \/ \E elements \in Elements, element_size \in ElementSizes, grant \in BOOLEAN :
           ZeroAllocate(elements, element_size, grant, 0)
    \/ \E ptr \in returned \cup {NULL} : Release(ptr)
    \/ \E ptr \in returned \cup {NULL}, size \in Sizes, grant \in BOOLEAN :
           Reallocate(ptr, size, grant, 0)
    \/ \E p \in returned : UserWrite(p)

Spec == Init /\ [][Next]_vars

\* Another grower of the data segment runs beside the caller: inside an
\* extension it leaves the break alone or moves it by one cell, as far as
\* the system lets it.  The caller here makes the four calls only: what
\* it stores in its payloads plays no part in an extension.
Others == {0, 1}

NextGrower ==
    \/ \E size \in Sizes, grant \in BOOLEAN, other \in Others :
           brk + other <= MemTop /\ Allocate(size, grant, other)
    \/ \E elements \in Elements, element_size \in ElementSizes, grant \in BOOLEAN,
          other \in Others :
           brk + other <= MemTop /\ ZeroAllocate(elements, element_size, grant, other)
    \/ \E ptr \in returned \cup {NULL} : Release(ptr)
    \/ \E ptr \in returned \cup {NULL}, size \in Sizes, grant \in BOOLEAN,
          other \in Others :
           brk + other <= MemTop /\ Reallocate(ptr, size, grant, other)

SpecGrower == Init /\ [][NextGrower]_vars

TypeOK ==
    /\ brk \in HeapStart..MemTop
    /\ status \in Ends
    /\ returned \subseteq Cells
    /\ held \subseteq returned
    /\ released \subseteq returned

\* ------------------------------------------------- reading a heap state
\* The fields of the block a user pointer belongs to.
block_size(m, ptr) == m[retrieve_block_ptr(ptr) + OFF_SIZE]
block_free(m, ptr) == m[retrieve_block_ptr(ptr) + OFF_FREE]
block_flag(m, ptr) == m[retrieve_block_ptr(ptr) + OFF_FLAG]

\* The blocks linked from b, in list order.
RECURSIVE chain(_, _)
chain(m, b) == IF b = NULL THEN <<>> ELSE <<b>> \o chain(m, m[b + OFF_NEXT])

\* Some block before ptr's block in the list is free and holds size bytes.
EarlierFit(m, bs, ptr, size) ==
    LET L == chain(m, bs)
    IN  \E i, j \in 1..Len(L) :
            i < j /\ L[j] = retrieve_block_ptr(ptr) /\ block_fits(m, L[i], size)

\* The call that led to this state returned (to the caller, with its
\* stores done), rather than ending in an abort or a fault.
Returned == status \in {"run", "undef"}

\* ------------------------------------------------------------------ C1
\* C1: a successful allocate(s), s > 0 of any magnitude, returns the address
\* just past the metadata of an in-use block with size >= s whose metadata
\* and s payload bytes lie inside the data region (below the break).
C1_AllocateInsideRegion ==
    (last.op = "allocate" /\ last.ret # NULL /\ Returned) =>
        /\ last.size > 0
        /\ InRegion(retrieve_block_ptr(last.ret), brk)
        /\ block_free(mem, last.ret) = 0
        /\ block_size(mem, last.ret) >= last.size
        /\ last.ret + last.size <= brk

\* ------------------------------------------------------------------ C2
\* C2: allocate(0) returns absent and changes nothing in the heap: not the
\* base, not the break, not one cell of any block.
C2_AllocateZeroIsNoOp ==
    [][(last'.op = "allocate" /\ last'.size = 0) =>
           /\ last'.ret = NULL
           /\ status' = "run"
           /\ UNCHANGED <<mem, brk, base, held, returned>>]_vars

C2_Witness ==
    /\ last.op = "allocate" /\ last.size = 0 /\ last.ret = NULL
    /\ base # NULL
    /\ \E p \in returned : block_free(mem, p) # 0
    /\ held # {}

\* ------------------------------------------------------------------ C3
\* C3 as claimed: right after release(p), allocate(s) with 0 < s <= capacity
\* of p's block returns p and does not grow the data region.
C3_SameAddressAfterRelease ==
    (/\ last.op = "allocate"
     /\ last.after # NULL
     /\ 0 < last.size
     /\ last.size <= block_size(mem, last.after)) =>
        (last.ret = last.after /\ last.sbrk = "none")

\* C3 amended: right after release(p), allocate(s) with 0 < s <= capacity of
\* p's block makes no growth request and leaves the break alone, and it
\* returns p whenever no block earlier in the list is free with size >= s.
C3_ReuseAfterRelease ==
    [][(/\ last.op = "release"
        /\ last.ptr # NULL
        /\ last'.op = "allocate"
        /\ 0 < last'.size
        /\ last'.size <= block_size(mem, last.ptr)) =>
           /\ status' = "run"
           /\ last'.sbrk = "none"
           /\ brk' = brk
           /\ last'.ret # NULL
           /\ (~EarlierFit(mem, base, last.ptr, last'.size) => last'.ret = last.ptr)]_vars

C3_Witness ==
    /\ last.op = "allocate"
    /\ last.after # NULL
    /\ last.ret = last.after
    /\ 0 < last.size
    /\ last.size < block_size(mem, last.after)
    /\ Len(chain(mem, base)) > 1

\* ------------------------------------------------------------------ C4
\* C4: reallocate(p, s) with p not absent and size of p's block >= s (s = 0
\* included) returns p and changes no state: no cell, not the break, not
\* the base.
C4_ReallocateInPlace ==
    [][(/\ last'.op = "reallocate"
        /\ last'.ptr # NULL
        /\ block_size(mem, last'.ptr) >= last'.size) =>
           /\ last'.ret = last'.ptr
           /\ status' = "run"
           /\ UNCHANGED <<mem, brk, base, held, returned>>]_vars

C4_Witness ==
    /\ last.op = "reallocate"
    /\ last.ptr # NULL
    /\ last.ret = last.ptr
    /\ last.size > 0
    /\ block_size(mem, last.ptr) > last.size
    /\ \E i \in 0..(block_size(mem, last.ptr) - 1) : mem[last.ptr + i] # 0

\* ------------------------------------------------------------------ C5
\* C5: reallocate(p, s) on an in-use p whose block is smaller than s never
\* aborts and comes back absent only if growth was denied (or the call
\* faulted); when it returns a pointer, that pointer differs from p, its
\* block has size >= s and is in use, its first old-size bytes are p's
\* payload as it was at the call, and p's block is left free with the freed
\* tag, its size as before.
C5_ReallocateMoves ==
    [][(/\ last'.op = "reallocate"
        /\ last'.ptr # NULL
        /\ block_free(mem, last'.ptr) = 0
        /\ block_size(mem, last'.ptr) < last'.size) =>
           /\ status' # "abort"
           /\ (last'.ret = NULL) => (last'.sbrk = "denied" \/ status' = "segv")
           /\ (last'.ret # NULL) =>
                  /\ last'.ret # last'.ptr
                  /\ block_size(mem', last'.ret) >= last'.size
                  /\ block_free(mem', last'.ret) = 0
                  /\ \A i \in 0..(block_size(mem, last'.ptr) - 1) :
                         mem'[last'.ret + i] = mem[last'.ptr + i]
                  /\ block_size(mem', last'.ptr) = block_size(mem, last'.ptr)
                  /\ block_free(mem', last'.ptr) = 1
                  /\ block_flag(mem', last'.ptr) = TAG_FREED]_vars

C5_Witness ==
    /\ last.op = "reallocate"
    /\ last.ptr # NULL
    /\ last.ret \notin {NULL, last.ptr}
    /\ status = "run"
    /\ block_flag(mem, last.ptr) = TAG_FREED
    /\ mem[last.ret] # 0
    /\ mem[last.ret] = mem[last.ptr]

\* ------------------------------------------------------------------ C6
\* C6: when the growth request is denied, allocate, zero_allocate and
\* reallocate return absent and leave base, break and every cell (metadata
\* and payload) as they were; the caller still holds what it held.
C6_DeniedGrowthChangesNothing ==
    [][(last'.sbrk = "denied") =>
           /\ last'.op \in {"allocate", "zero_allocate", "reallocate"}
           /\ last'.ret = NULL
           /\ status' = "run"
           /\ UNCHANGED <<mem, brk, base, held, returned, released>>]_vars

C6_Witness ==
    /\ last.op = "reallocate"
    /\ last.sbrk = "denied"
    /\ last.ptr \in held
    /\ block_free(mem, last.ptr) = 0
    /\ mem[last.ptr] # 0

\* ------------------------------------------------------------------ C7
\* C7 as claimed: once release(p) has succeeded, every later release(p)
\* aborts, whatever calls come in between.
C7_SecondReleaseAlwaysFatal ==
    [][(last'.op = "release" /\ last'.ptr \in released) =>
           status' = "abort"]_vars

\* C7 amended: once release(p) has succeeded, a later release(p) aborts
\* and changes nothing, unless the allocator has handed p out again in
\* between (p's block was reused), in which case it succeeds.
C7_ReleaseOfReleasedIsFatal ==
    [][(last'.op = "release" /\ last'.ptr \in released) =>
           IF last'.ptr \in held
           THEN status' = "run"
           ELSE status' = "abort" /\ UNCHANGED <<mem, brk, base>>]_vars

C7_Witness ==
    /\ status = "abort"
    /\ last.op = "release"
    /\ last.ptr \in released
    /\ block_free(mem, last.ptr) = 1

\* ------------------------------------------------------------------ C8
\* C8: for all n and k, a successful zero_allocate(n, k) returns a region
\* of n * k bytes, inside a block of that capacity below the break, each
\* byte zero.
C8_ZeroedRegionOfProduct ==
    (last.op = "zero_allocate" /\ last.ret # NULL /\ Returned) =>
        /\ block_size(mem, last.ret) >= last.elements * last.element_size
        /\ last.ret + last.elements * last.element_size <= brk
        /\ \A i \in 0..(last.elements * last.element_size - 1) :
               mem[last.ret + i] = 0

\* ------------------------------------------------------------------ C9
\* What a call of allocate(size) can leave behind from the present state,
\* compared with what the step did.
SameAs(r) ==
    /\ status' \in Outcomes(r)
    /\ last'.sbrk = r.sbrk
    /\ IF status' = "segv"
       THEN last'.ret = NULL /\ UNCHANGED <<mem, brk, base>>
       ELSE last'.ret = r.ret /\ mem' = r.mem /\ brk' = r.brk /\ base' = r.base

\* C9: reallocate(absent, s) does what allocate(s) does from the same heap
\* state under the same answer to the growth request: the same result, the
\* same resulting heap, for every s; and the other way round.
C9_ReallocateAbsentIsAllocate ==
    [][/\ (last'.op = "reallocate" /\ last'.ptr = NULL) =>
              \E grant \in BOOLEAN :
                  /\ (last'.sbrk = "denied") = (~grant)
                  /\ SameAs(allocate_memory(Heap, last'.size, grant, 0))
       /\ (last'.op = "allocate") =>
              \E grant \in BOOLEAN :
                  /\ (last'.sbrk = "denied") = (~grant)
                  /\ SameAs(reallocate_memory(Heap, NULL, last'.size, grant, 0))]_vars

C9_Witness ==
    /\ last.op = "reallocate"
    /\ last.ptr = NULL
    /\ last.ret # NULL
    /\ last.sbrk = "none"
    /\ block_flag(mem, last.ret) = TAG_REUSED

\* ----------------------------------------------------------------- C10
\* C10: release(absent) changes nothing; a successful release(p) sets the
\* free flag and the freed tag of p's block and changes no other cell (not
\* the block's size, next link or payload, not another block), nor the
\* base, nor the break.
C10_ReleaseFrame ==
    [][(last'.op = "release" /\ status' = "run") =>
           /\ brk' = brk
           /\ base' = base
           /\ IF last'.ptr = NULL
              THEN mem' = mem
              ELSE /\ block_free(mem', last'.ptr) = 1
                   /\ block_flag(mem', last'.ptr) = TAG_FREED
                   /\ \A a \in Cells :
                          a \notin {retrieve_block_ptr(last'.ptr) + OFF_FREE,
                                    retrieve_block_ptr(last'.ptr) + OFF_FLAG}
                              => mem'[a] = mem[a]]_vars

C10_Witness ==
    /\ last.op = "release"
    /\ last.ptr # NULL
    /\ status = "run"
    /\ block_flag(mem, last.ptr) = TAG_FREED
    /\ mem[last.ptr] # 0
    /\ held # {}
    /\ mem[retrieve_block_ptr(last.ptr) + OFF_NEXT] # NULL

\* ----------------------------------------------------------------- C11
\* The blocks of the list, as a set.
Blocks == {chain(mem, base)[i] : i \in 1..Len(chain(mem, base))}

\* C11: every user pointer the caller holds (returned and not since
\* released) addresses a block that is not free and whose tag is the
\* freshly-extended or the reused sentinel; and every block of the list is
\* free exactly when its tag is the freed sentinel.
C11_HeldBlocksInUse ==
    /\ \A p \in held :
           /\ retrieve_block_ptr(p) \in Blocks
           /\ block_free(mem, p) = 0
           /\ block_flag(mem, p) \in {TAG_EXTENDED, TAG_REUSED}
    /\ \A b \in Blocks :
           /\ mem[b + OFF_FREE] \in {0, 1}
           /\ (mem[b + OFF_FREE] = 1) <=> (mem[b + OFF_FLAG] = TAG_FREED)

C11_Witness ==
    /\ status = "run"
    /\ \E p, q \in held :
           /\ block_flag(mem, p) = TAG_EXTENDED
           /\ block_flag(mem, q) = TAG_REUSED
    /\ released # {}

\* ----------------------------------------------------------------- C12
\* C12: the list is append-only.  Across every step the list reached from
\* base before it is a prefix of the list after it; base, once set, stays;
\* a next link that is not NULL is never overwritten; the list has no
\* cycle; and a step adds at most one block, after the tail.
C12_ListAppendOnly ==
    [][LET L == chain(mem, base)
           M == chain(mem', base')
       IN  /\ Len(L) <= Len(M)
           /\ Len(M) <= Len(L) + 1
           /\ \A i \in 1..Len(L) : M[i] = L[i]
           /\ (base # NULL) => (base' = base)
           /\ \A i \in 1..Len(L) :
                  (mem[L[i] + OFF_NEXT] # NULL) =>
                      (mem'[L[i] + OFF_NEXT] = mem[L[i] + OFF_NEXT])
           /\ \A i, j \in 1..Len(M) : (i # j) => (M[i] # M[j])
           /\ (Len(M) = Len(L) + 1 /\ Len(L) > 0) =>
                  (mem'[L[Len(L)] + OFF_NEXT] = M[Len(M)])]_vars

C12_Witness ==
    /\ status = "run"
    /\ last.sbrk = "granted"
    /\ Len(chain(mem, base)) > 1
    /\ retrieve_block_ptr(last.ret) = chain(mem, base)[Len(chain(mem, base))]
    /\ mem[base + OFF_FREE] = 1

\* ----------------------------------------------------------------- C13
\* C13: the break only grows: whatever the operation and whatever the size
\* asked for, the break after a step is at least the break before it.
C13_BreakOnlyGrows ==
    [][brk' >= brk]_vars

\* ----------------------------------------------------------------- C14
\* The blocks of the list that are free with size >= size, by their place
\* in the list.
Fits(size) ==
    {i \in 1..Len(chain(mem, base)) : block_fits(mem, chain(mem, base)[i], size)}

\* C14: when base is set and some block of the list is free with size >= s,
\* allocate(s) with s > 0 returns the payload of the first such block in
\* list order: no block before it is free and large enough.
C14_FirstFit ==
    [][(/\ last'.op = "allocate"
        /\ last'.size > 0
        /\ base # NULL
        /\ Fits(last'.size) # {}) =>
           /\ status' = "run"
           /\ \E i \in Fits(last'.size) :
                  /\ last'.ret = user_ptr(chain(mem, base)[i])
                  /\ \A j \in Fits(last'.size) : i <= j]_vars

\* The first block was reused although the second, also free, is the
\* smaller fit.
C14_Witness ==
    /\ last.op = "allocate"
    /\ last.size > 0
    /\ last.sbrk = "none"
    /\ status = "run"
    /\ last.ret = user_ptr(base)
    /\ Len(chain(mem, base)) > 1
    /\ block_fits(mem, chain(mem, base)[2], last.size)
    /\ mem[chain(mem, base)[2] + OFF_SIZE] < mem[base + OFF_SIZE]

\* ----------------------------------------------------------------- C15
\* C15: allocate(s) with s > 0 asks for growth exactly when base is NULL or
\* no block of the list is free with size >= s.  When a block fits, the
\* break and the list stay as they were and the only cells that change are
\* the free flag and the tag of the block returned, which become 0 and the
\* reused sentinel.
C15_ReuseOrExtend ==
    [][(last'.op = "allocate" /\ last'.size > 0) =>
           /\ (last'.sbrk # "none") <=> (base = NULL \/ Fits(last'.size) = {})
           /\ (base # NULL /\ Fits(last'.size) # {}) =>
                  /\ status' = "run"
                  /\ brk' = brk
                  /\ base' = base
                  /\ chain(mem', base') = chain(mem, base)
                  /\ retrieve_block_ptr(last'.ret) \in Blocks
                  /\ block_free(mem, last'.ret) = 1
                  /\ block_free(mem', last'.ret) = 0
                  /\ block_flag(mem', last'.ret) = TAG_REUSED
                  /\ \A a \in Cells :
                         a \notin {retrieve_block_ptr(last'.ret) + OFF_FREE,
                                   retrieve_block_ptr(last'.ret) + OFF_FLAG}
                             => mem'[a] = mem[a]]_vars

\* The second block was reused, its payload as the last holder left it.
C15_Witness ==
    /\ last.op = "allocate"
    /\ last.sbrk = "none"
    /\ status = "run"
    /\ Len(chain(mem, base)) > 1
    /\ last.ret = user_ptr(chain(mem, base)[2])
    /\ block_flag(mem, last.ret) = TAG_REUSED
    /\ mem[last.ret] # 0

\* ----------------------------------------------------------------- C16
\* C16: no step changes the size field of a block of the list: a block is
\* never split, merged or shrunk, and a block reused for a smaller request
\* still reports the capacity it was created with.
C16_SizeNeverChanges ==
    [][\A b \in Blocks : mem'[b + OFF_SIZE] = mem[b + OFF_SIZE]]_vars

\* A block of capacity 2, reused for a request of 1 and then reallocated to
\* 1 in place, still reports 2.
C16_Witness ==
    /\ last.op = "reallocate"
    /\ last.ptr # NULL
    /\ last.ret = last.ptr
    /\ 0 < last.size
    /\ last.size < block_size(mem, last.ptr)
    /\ block_flag(mem, last.ptr) = TAG_REUSED
    /\ \E b \in Blocks : mem[b + OFF_FREE] = 1

\* ----------------------------------------------------------------- C17
\* The cells of block b: its metadata and its payload.
Extent(m, b) == b..(b + BLOCK_SIZE + m[b + OFF_SIZE] - 1)

\* C17: after every step the metadata-plus-payload ranges of the blocks of
\* the list lie below the break and are pairwise disjoint, and allocate,
\* zero_allocate and reallocate never hand out an address the caller
\* already holds (other than reallocate returning its own argument).
C17_BlocksDisjointBelowBreak ==
    [][/\ \A b \in Blocks' :
              /\ InRegion(b, brk')
              /\ b + BLOCK_SIZE + mem'[b + OFF_SIZE] <= brk'
       /\ \A b, c \in Blocks' :
              (b # c) => (Extent(mem', b) \cap Extent(mem', c) = {})
       /\ (/\ last'.op \in {"allocate", "zero_allocate", "reallocate"}
           /\ last'.ret # NULL
           /\ last'.ret # last'.ptr) => (last'.ret \notin held)]_vars

\* ----------------------------------------------------------------- C18
\* C18: for an address p the allocator has returned, release(p) aborts
\* exactly when p's block is marked free at the call; a block that is not
\* free carries one of the two in-use tags, so the tag check never fails by
\* itself; and the outcome is that of release_memory on the heap alone,
\* whoever holds the block.
C18_ReleaseFatalIffFree ==
    [][(last'.op = "release" /\ last'.ptr # NULL /\ last'.ptr \in returned) =>
           /\ status' \in {"run", "abort"}
           /\ (status' = "abort") <=> (block_free(mem, last'.ptr) # 0)
           /\ (block_free(mem, last'.ptr) = 0) =>
                  (block_flag(mem, last'.ptr) \in {TAG_EXTENDED, TAG_REUSED})
           /\ (status' = "abort") = release_memory(Heap, last'.ptr).abort
           /\ mem' = release_memory(Heap, last'.ptr).mem]_vars

\* The process aborted in release(p), p's block being free, while the
\* caller holds another block.
C18_Witness ==
    /\ status = "abort"
    /\ last.op = "release"
    /\ last.ptr # NULL
    /\ block_free(mem, last.ptr) = 1
    /\ block_flag(mem, last.ptr) = TAG_FREED
    /\ held # {}
    /\ last.ptr \notin held

\* ----------------------------------------------------------------- C19
\* C19: when another grower has moved the break between extend_memory's
\* read of it and its growth request, and the request is granted, the call
\* aborts with nothing linked and nothing initialized: no cell is written,
\* base is not set, and no block is returned.
C19_RaceIsFatal ==
    [][(last'.other > 0 /\ last'.sbrk = "granted") =>
           /\ status' = "abort"
           /\ last'.ret = NULL
           /\ mem' = mem
           /\ base' = base
           /\ held' = held
           /\ returned' = returned]_vars

\* The extension raced while a block was already in the list: the tail's
\* next link is still NULL and the cells at the stale address are untouched.
C19_Witness ==
    /\ status = "abort"
    /\ last.other > 0
    /\ last.sbrk = "granted"
    /\ base # NULL
    /\ mem[chain(mem, base)[Len(chain(mem, base))] + OFF_NEXT] = NULL
    /\ brk > base + BLOCK_SIZE + mem[base + OFF_SIZE] + last.other

\* ----------------------------------------------------------------- C20
\* C20: zero_allocate(n, k) asks allocate for (n * k) mod 2^Width bytes and
\* zero-fills exactly that many: it returns absent when that value is 0;
\* it reports nothing when n * k does not fit, coming back absent only if
\* growth was denied (or the call faulted); the block returned has that
\* capacity at least, its first (n * k) mod 2^Width payload bytes are zero
\* and every other cell is as allocate alone would have left it.
C20_ZeroAllocateWraps ==
    [][(last'.op = "zero_allocate") =>
           LET t == (last'.elements * last'.element_size) % Modulus
           IN  /\ (t = 0) => (last'.ret = NULL /\ status' = "run" /\ mem' = mem)
               /\ (t # 0 /\ last'.ret = NULL) =>
                      (last'.sbrk = "denied" \/ status' = "segv")
               /\ (last'.ret # NULL) =>
                      /\ block_size(mem', last'.ret) =
                             (IF last'.sbrk = "none"
                              THEN block_size(mem, last'.ret) ELSE t)
                      /\ block_size(mem', last'.ret) >= t
                      /\ \A i \in 0..(t - 1) : mem'[last'.ret + i] = 0
                      /\ \E grant \in BOOLEAN :
                             \A a \in Cells :
                                 (a < last'.ret \/ a >= last'.ret + t) =>
                                     mem'[a] = allocate_memory(Heap, t, grant, 0).mem[a]]_vars

\* The product 2^Width + 2 did not fit: the call succeeded with a block of
\* 2 bytes.
C20_Witness ==
    /\ last.op = "zero_allocate"
    /\ last.elements * last.element_size >= Modulus
    /\ last.ret # NULL
    /\ status = "run"
    /\ block_size(mem, last.ret) < last.elements * last.element_size
    /\ \A i \in 0..(block_size(mem, last.ret) - 1) : mem[last.ret + i] = 0

====
